---- MODULE Spec2Model ----
(***************************************************************************)
(* ElasticNetL1Attack (advertorch/attacks/ead.py): the binary search over  *)
(* the per-sample loss coefficient, the inner FISTA loop, the best-result  *)
(* tracking and the coefficient update, as a state machine over one        *)
(* perturb call.                                                           *)
(*                                                                         *)
(* Numbers.  Pixels, the slack and the loss are IEEE floats: a finite      *)
(* value on an integer grid, or one of NaN, +inf, -inf ("F" values).       *)
(* Distances and coefficients range up to 1e10 and beyond, so they are     *)
(* kept as decimal floats m * 10^e / Quantum ("Num" values), with exact    *)
(* x10 and with midpoints exact down to 1/Quantum.                         *)
(***************************************************************************)
EXTENDS Integers, Sequences, FiniteSets, TLC

VARIABLES
    self,               \* the attack's configuration (fields set by __init__)
    global_step,        \* self.global_step
    x, y,               \* the batch and its labels
    pc,                 \* position in perturb
    loss_coeffs, coeff_lower_bound, coeff_upper_bound,
    aliased,            \* loss_coeffs and coeff_upper_bound are one tensor (line 280)
    final_dist, final_labels, final_advs,
    outer_step, ii,
    slack, newimg, cur_dist, cur_labels, prevloss, loss,
    scores,             \* the classifier: image -> logits, fixed once evaluated
    hit                 \* history: sample i had a confidence-adjusted successful candidate

vars == << self, global_step, x, y, pc, loss_coeffs, coeff_lower_bound,
           coeff_upper_bound, aliased, final_dist, final_labels, final_advs,
           outer_step, ii, slack, newimg, cur_dist, cur_labels, prevloss, loss,
           scores, hit >>

----------------------------------------------------------------------------
(* Bounds of the model *)

NumPixels == 1
MaxPix == 2
MaxLogit == 2
MaxSteps == 2
MaxIter == 2
SlackMargin == 2

(* Program constants, ead.py lines 30-38 *)

INVALID_LABEL == -1
REPEAT_STEP == 10
NUM_CHECKS == 10
PREV_LOSS_INIT == 1000000
ONE_MINUS_EPS_NUM == 999999
ONE_MINUS_EPS_DEN == 1000000

----------------------------------------------------------------------------
(* Decimal floats for coefficients and distances: m * 10^e / Quantum *)

Quantum == 2^12

RECURSIVE Pow10(_)
Pow10(n) == IF n <= 0 THEN 1 ELSE 10 * Pow10(n - 1)

RECURSIVE Norm(_, _)
Norm(m, e) ==
    IF m = 0 THEN [m |-> 0, e |-> 0]
    ELSE IF m % 10 = 0 THEN Norm(m \div 10, e + 1)
    ELSE [m |-> m, e |-> e]

Num(c, e) == Norm(c * Quantum, e)

NumLt(a, b) ==
    IF a.e >= b.e
    THEN LET d == a.e - b.e IN
         IF d > 9 THEN (IF a.m = 0 THEN 0 < b.m ELSE a.m < 0)
         ELSE a.m <= (b.m - 1) \div Pow10(d)
    ELSE LET d == b.e - a.e IN
         IF d > 9 THEN (IF b.m = 0 THEN a.m < 0 ELSE b.m > 0)
         ELSE ~(b.m <= a.m \div Pow10(d))

NumLe(a, b) == ~NumLt(b, a)

NumMin(a, b) == IF NumLt(b, a) THEN b ELSE a

NumMax(a, b) == IF NumLt(a, b) THEN b ELSE a

NumTimes10(a) == IF a.m = 0 THEN a ELSE [m |-> a.m, e |-> a.e + 1]

NumMid(a, b) ==
    IF a.m = 0 THEN Norm(b.m \div 2, b.e)
    ELSE IF b.m = 0 THEN Norm(a.m \div 2, a.e)
    ELSE LET e0 == IF a.e < b.e THEN a.e ELSE b.e
             s  == a.m * Pow10(a.e - e0) + b.m * Pow10(b.e - e0)
         IN  Norm(s \div 2, e0)

DIST_UPPER == Num(1, 10)
COEFF_UPPER == Num(1, 10)
UPPER_CHECK == Num(1, 9)

----------------------------------------------------------------------------
(* IEEE floats on the integer grid *)

Fin(v) == [k |-> "fin", v |-> v]
NaN == [k |-> "nan", v |-> 0]
PInf == [k |-> "pinf", v |-> 0]
NInf == [k |-> "ninf", v |-> 0]

IsFin(a) == a.k = "fin"

FNeg(a) ==
    IF a.k = "fin" THEN Fin(0 - a.v)
    ELSE IF a.k = "pinf" THEN NInf
    ELSE IF a.k = "ninf" THEN PInf
    ELSE NaN

FAdd(a, b) ==
    IF a.k = "nan" \/ b.k = "nan" THEN NaN
    ELSE IF a.k = "fin" /\ b.k = "fin" THEN Fin(a.v + b.v)
    ELSE IF a.k = "fin" THEN b
    ELSE IF b.k = "fin" THEN a
    ELSE IF a.k = b.k THEN a
    ELSE NaN

FSub(a, b) == FAdd(a, FNeg(b))

FLt(a, b) ==
    IF a.k = "nan" \/ b.k = "nan" THEN FALSE
    ELSE IF a.k = "fin" /\ b.k = "fin" THEN a.v < b.v
    ELSE IF a.k = "ninf" THEN b.k # "ninf"
    ELSE IF b.k = "pinf" THEN a.k # "pinf"
    ELSE FALSE

FLe(a, b) ==
    IF a.k = "nan" \/ b.k = "nan" THEN FALSE ELSE ~FLt(b, a)

FAbs(a) ==
    IF a.k = "ninf" THEN PInf
    ELSE IF a.k = "fin" /\ a.v < 0 THEN Fin(0 - a.v)
    ELSE a

\* torch multiplies by the 0/1 mask: 0 * inf and 0 * nan are nan
FMask(c, a) ==
    IF c THEN a
    ELSE IF a.k = "fin" THEN Fin(0) ELSE NaN

\* advertorch.utils.clamp(input, min, max) with one bound given
ClampMax(a, hi) == IF a.k = "nan" THEN NaN ELSE IF FLt(Fin(hi), a) THEN Fin(hi) ELSE a

ClampMin(a, lo) == IF a.k = "nan" THEN NaN ELSE IF FLt(a, Fin(lo)) THEN Fin(lo) ELSE a

----------------------------------------------------------------------------
(* Shapes *)

Pixels == 1 .. NumPixels
Classes == {0, 1}
\* scores matter up to a common shift: the smallest one is 0
Logits == { out \in [Classes -> 0 .. MaxLogit] : \E c \in Classes : out[c] = 0 }
GridImages == [Pixels -> {Fin(v) : v \in 0 .. MaxPix}]
SlackValues == {Fin(v) : v \in (0 - SlackMargin) .. (MaxPix + SlackMargin)} \cup {NaN, PInf, NInf}
LossValues == {Fin(0), Fin(PREV_LOSS_INIT - 2), Fin(PREV_LOSS_INIT), NaN}

Samples == 1 .. Len(x)

ImgFinite(img) == \A p \in Pixels : IsFin(img[p])

----------------------------------------------------------------------------
(* __init__, lines 61-92 *)

Attack(targeted, confidence, abort_early, decision_rule, beta, binary_search_steps, max_iterations, initial_const, clip_max) ==
    [ targeted |-> targeted,
      confidence |-> confidence,
      abort_early |-> abort_early,
      decision_rule |-> decision_rule,
      beta |-> beta,
      binary_search_steps |-> binary_search_steps,
      max_iterations |-> max_iterations,
      initial_const |-> initial_const,
      clip_min |-> 0,
      clip_max |-> clip_max,
      repeat |-> (binary_search_steps >= REPEAT_STEP) ]

----------------------------------------------------------------------------
(* Success predicates *)

\* torch.argmax / torch.max(.., 1): the index of the first maximal value
ArgMax(out) ==
    CHOOSE c \in Classes :
        /\ \A d \in Classes : out[d] <= out[c]
        /\ \A d \in Classes : out[d] = out[c] => c <= d

\* advertorch.attacks.utils.is_successful
is_successful(pred, label, targeted) ==
    IF targeted THEN pred = label ELSE pred # label

\* a faulty variant: the confidence margin is forgotten
AdjustedSuccessNoMargin(out, label) ==
    is_successful(ArgMax(out), label, self.targeted)

\* _is_successful(output, label, is_logits=True), one row of the batch
AdjustedSuccess(out, label) ==
    LET adj == [out EXCEPT ![label] =
                   IF self.targeted THEN @ - self.confidence
                                    ELSE @ + self.confidence]
    IN  is_successful(ArgMax(adj), label, self.targeted)

\* _is_successful(pred, label, is_logits=False)
LabelSuccess(pred, label) ==
    IF pred = INVALID_LABEL THEN FALSE
    ELSE is_successful(pred, label, self.targeted)

----------------------------------------------------------------------------
(* _fast_iterative_shrinkage_thresholding, lines 147-161, one element *)

FistaUpper(sp) == ClampMax(FSub(sp, Fin(self.beta)), self.clip_max)

FistaLower(sp) == ClampMin(FAdd(sp, Fin(self.beta)), self.clip_min)

AssignNewimg(xp, sp) ==
    LET diff  == FSub(sp, xp)
        cond1 == FLt(Fin(self.beta), diff)
        cond2 == FLe(FAbs(diff), Fin(self.beta))
        cond3 == FLt(diff, Fin(0 - self.beta))
    IN  FAdd(FAdd(FMask(cond1, FistaUpper(sp)), FMask(cond2, xp)),
             FMask(cond3, FistaLower(sp)))

\* slack.data = assign_newimg + zt * (assign_newimg - newimg), zt = step / (step + 3),
\* kept as the fraction n / d
Momentum(assign, np, step) ==
    IF IsFin(assign) /\ IsFin(np)
    THEN [k |-> "fin", n |-> assign.v * (step + 3) + step * (assign.v - np.v), d |-> step + 3]
    ELSE [k |-> "nan", n |-> 0, d |-> 1]

AsSlack(img) == [p \in Pixels |-> [k |-> img[p].k, n |-> img[p].v, d |-> 1]]

----------------------------------------------------------------------------
(* run, lines 175-188: the decision criterion of one candidate *)

RECURSIVE SumL1(_, _, _)
SumL1(a, b, p) ==
    IF p = 0 THEN Fin(0) ELSE FAdd(SumL1(a, b, p - 1), FAbs(FSub(a[p], b[p])))

FSquare(a) == IF IsFin(a) THEN Fin(a.v * a.v) ELSE IF a.k = "nan" THEN NaN ELSE PInf

RECURSIVE SumL2(_, _, _)
SumL2(a, b, p) ==
    IF p = 0 THEN Fin(0) ELSE FAdd(SumL2(a, b, p - 1), FSquare(FSub(a[p], b[p])))

calc_l1dist(a, b) == SumL1(a, b, NumPixels)

calc_l2distsq(a, b) == SumL2(a, b, NumPixels)

FScale(a, c) ==
    IF IsFin(a) THEN Fin(a.v * c)
    ELSE IF a.k = "nan" \/ c = 0 THEN NaN
    ELSE IF c > 0 THEN a ELSE FNeg(a)

\* a faulty variant: the two decision rules are swapped
CritSwapped(img, orig) ==
    IF self.decision_rule = "L1"
    THEN FAdd(calc_l2distsq(img, orig), FScale(calc_l1dist(img, orig), self.beta))
    ELSE calc_l1dist(img, orig)

Crit(img, orig) ==
    IF self.decision_rule = "EN"
    THEN FAdd(calc_l2distsq(img, orig), FScale(calc_l1dist(img, orig), self.beta))
    ELSE calc_l1dist(img, orig)

\* dist < bound, dist a float of the batch, bound a stored distance
DistLt(dist, bound) == IsFin(dist) /\ NumLt(Num(dist.v, 0), bound)

----------------------------------------------------------------------------
(* _update_if_smaller_dist_succeed, lines 191-210, one sample *)

\* a faulty variant: the distance comparison is dropped
BestMaskAnyDist(dist, bound, out, label) ==
    IsFin(dist) /\ AdjustedSuccess(out, label)

\* a faulty variant: the success test is dropped
BestMaskAnyLabel(dist, bound, out, label) ==
    DistLt(dist, bound)

BestMask(dist, bound, out, label) ==
    DistLt(dist, bound) /\ AdjustedSuccess(out, label)

----------------------------------------------------------------------------
(* _update_loss_coeffs, lines 213-235, one sample.  With al (loss_coeffs is  *)
(* coeff_upper_bound, line 280) a store to either is a store to both.       *)

\* a faulty variant: a success that leaves the upper bound at or above UPPER_CHECK also
\* multiplies the coefficient by 10
UpdateCoeffSuccessTimes10(lc, lb, ub, succ, al) ==
    IF succ
    THEN LET ub1 == NumMin(ub, lc)
         IN  IF NumLt(ub1, UPPER_CHECK)
             THEN LET mid == NumMid(lb, ub1)
                  IN  [lc |-> mid, lb |-> lb, ub |-> IF al THEN mid ELSE ub1]
             ELSE LET big == NumTimes10(IF al THEN ub1 ELSE lc)
                  IN  [lc |-> big, lb |-> lb, ub |-> IF al THEN big ELSE ub1]
    ELSE LET lb1 == NumMax(lb, lc)
         IN  IF NumLt(ub, UPPER_CHECK)
             THEN LET mid == NumMid(lb1, ub)
                  IN  [lc |-> mid, lb |-> lb1, ub |-> IF al THEN mid ELSE ub]
             ELSE LET big == NumTimes10(lc)
                  IN  [lc |-> big, lb |-> lb1, ub |-> IF al THEN big ELSE ub]

\* a faulty variant: a failure always multiplies the coefficient by 10
UpdateCoeffFailureTimes10(lc, lb, ub, succ, al) ==
    IF succ
    THEN LET ub1 == NumMin(ub, lc)
             lc1 == IF al THEN ub1 ELSE lc
         IN  IF NumLt(ub1, UPPER_CHECK)
             THEN LET mid == NumMid(lb, ub1)
                  IN  [lc |-> mid, lb |-> lb, ub |-> IF al THEN mid ELSE ub1]
             ELSE [lc |-> lc1, lb |-> lb, ub |-> ub1]
    ELSE LET lb1 == NumMax(lb, lc)
             big == NumTimes10(lc)
         IN  [lc |-> big, lb |-> lb1, ub |-> IF al THEN big ELSE ub]

UpdateCoeff(lc, lb, ub, succ, al) ==
    IF succ
    THEN LET ub1 == NumMin(ub, lc)
             lc1 == IF al THEN ub1 ELSE lc
         IN  IF NumLt(ub1, UPPER_CHECK)
             THEN LET mid == NumMid(lb, ub1)
                  IN  [lc |-> mid, lb |-> lb, ub |-> IF al THEN mid ELSE ub1]
             ELSE [lc |-> lc1, lb |-> lb, ub |-> ub1]
    ELSE LET lb1 == NumMax(lb, lc)
         IN  IF NumLt(ub, UPPER_CHECK)
             THEN LET mid == NumMid(lb1, ub)
                  IN  [lc |-> mid, lb |-> lb1, ub |-> IF al THEN mid ELSE ub]
             ELSE LET big == NumTimes10(lc)
                  IN  [lc |-> big, lb |-> lb1, ub |-> IF al THEN big ELSE ub]

----------------------------------------------------------------------------
(* The early-stopping test of lines 299-303 *)

CheckInterval == IF self.max_iterations \div NUM_CHECKS = 0
                 THEN 1 ELSE self.max_iterations \div NUM_CHECKS

\* loss > prevloss * ONE_MINUS_EPS, without leaving 32 bits
Stagnated(l, prev) ==
    /\ IsFin(l) /\ IsFin(prev)
    /\ LET d == l.v - prev.v
       IN  IF d > 2147 THEN TRUE
           ELSE IF d < 0 - 2147 THEN FALSE
           ELSE d * ONE_MINUS_EPS_DEN > 0 - prev.v * (ONE_MINUS_EPS_DEN - ONE_MINUS_EPS_NUM)

----------------------------------------------------------------------------
(* The state after construction, with a batch at hand *)

Unset == << >>

InitWith(attacks, batches) ==
    /\ self \in attacks
    /\ \E b \in batches : x = b.x /\ y = b.y
    /\ global_step = 0
    /\ pc = "ready"
    /\ loss_coeffs = Unset /\ coeff_lower_bound = Unset /\ coeff_upper_bound = Unset
    /\ aliased = FALSE
    /\ final_dist = Unset /\ final_labels = Unset /\ final_advs = Unset
    /\ outer_step = 0 /\ ii = 0
    /\ slack = Unset /\ newimg = Unset /\ cur_dist = Unset /\ cur_labels = Unset
    /\ prevloss = Fin(PREV_LOSS_INIT) /\ loss = Fin(0)
    /\ scores = Unset
    /\ hit = Unset

Batches(n) ==
    { [x |-> bx, y |-> by] : bx \in [1 .. n -> GridImages], by \in [1 .. n -> Classes] }

----------------------------------------------------------------------------
(* perturb, lines 238-259: initialisation *)

Perturb ==
    /\ pc = "ready"
    /\ coeff_lower_bound' = [i \in Samples |-> Num(0, 0)]
    /\ coeff_upper_bound' = [i \in Samples |-> COEFF_UPPER]
    /\ loss_coeffs' = [i \in Samples |-> self.initial_const]
    /\ final_dist' = [i \in Samples |-> DIST_UPPER]
    /\ final_labels' = [i \in Samples |-> INVALID_LABEL]
    /\ final_advs' = x
    /\ hit' = [i \in Samples |-> FALSE]
    /\ outer_step' = 0
    /\ pc' = "outer"
    /\ UNCHANGED << self, global_step, x, y, aliased, ii, slack, newimg, cur_dist,
                    cur_labels, prevloss, loss, scores >>

(* lines 262-280: the head of one binary search step *)

BeginOuterStep ==
    /\ pc = "outer"
    /\ outer_step < self.binary_search_steps
    /\ global_step' = 0
    /\ slack' = [i \in Samples |-> AsSlack(x[i])]
    /\ newimg' = x
    /\ cur_dist' = [i \in Samples |-> DIST_UPPER]
    /\ cur_labels' = [i \in Samples |-> INVALID_LABEL]
    /\ prevloss' = Fin(PREV_LOSS_INIT)
    /\ IF self.repeat /\ outer_step = self.binary_search_steps - 1
       THEN loss_coeffs' = coeff_upper_bound /\ aliased' = TRUE
       ELSE UNCHANGED << loss_coeffs, aliased >>
    /\ ii' = 0
    /\ pc' = IF self.max_iterations > 0 THEN "inner" ELSE "coeffs"
    /\ UNCHANGED << self, x, y, coeff_lower_bound, coeff_upper_bound, final_dist,
                    final_labels, final_advs, outer_step, loss, scores, hit >>

(* lines 282-308: one iteration of the inner loop.  train moves the slack   *)
(* by a gradient of the classifier, which can be any float; a NaN slack     *)
(* stays NaN.  polynomial_decay only rescales that step.  The loss of line  *)
(* 295 is read by the early-stopping test alone: it is drawn where that     *)
(* test reads it.                                                           *)

TrainResults ==
    { s \in [Samples -> [Pixels -> SlackValues]] :
        \A i \in Samples, p \in Pixels : slack[i][p].k = "nan" => s[i][p] = NaN }

Candidate(s1) ==
    [i \in Samples |-> [p \in Pixels |-> AssignNewimg(x[i][p], s1[i][p])]]

InnerIteration ==
    /\ pc = "inner"
    /\ \E assign \in { Candidate(s1) : s1 \in TrainResults } :
       LET step   == global_step + 1
           fresh  == { assign[i] : i \in { j \in Samples : ImgFinite(assign[j]) } }
                        \ DOMAIN scores
           nans   == { i \in Samples : ~ImgFinite(assign[i]) }
       IN
       /\ global_step' = step
       /\ slack' = [i \in Samples |->
                      [p \in Pixels |-> Momentum(assign[i][p], newimg[i][p], step)]]
       /\ newimg' = assign
       /\ \E f \in [fresh -> Logits], g \in [nans -> Logits] :
          \E sc \in {f @@ scores} :
          \E output \in {[i \in Samples |-> IF i \in nans THEN g[i] ELSE sc[assign[i]]]} :
          /\ scores' = sc
          /\ IF self.decision_rule \notin {"EN", "L1"}
             THEN \* line 188: crit was never bound
                  /\ pc' = "raised"
                  /\ UNCHANGED << ii, prevloss, loss, cur_dist, cur_labels,
                                  final_dist, final_labels, final_advs, hit >>
             ELSE \E l \in (IF self.abort_early /\ ii % CheckInterval = 0
                              THEN LossValues ELSE {loss}) :
                  \E dist \in {[i \in Samples |-> Crit(assign[i], x[i])]},
                     label \in {[i \in Samples |-> ArgMax(output[i])]} :
                  \E cur_mask \in {[i \in Samples |->
                                      BestMask(dist[i], cur_dist[i], output[i], y[i])]},
                     final_mask \in {[i \in Samples |->
                                      BestMask(dist[i], final_dist[i], output[i], y[i])]} :
                  LET check == self.abort_early /\ ii % CheckInterval = 0
                  IN
                  /\ loss' = l
                  /\ hit' = [i \in Samples |-> hit[i] \/ AdjustedSuccess(output[i], y[i])]
                  /\ IF check /\ Stagnated(l, prevloss)
                     THEN \* break
                          /\ pc' = "coeffs"
                          /\ UNCHANGED << ii, prevloss, cur_dist, cur_labels,
                                          final_dist, final_labels, final_advs >>
                     ELSE /\ prevloss' = IF check THEN l ELSE prevloss
                          /\ cur_dist' = [i \in Samples |->
                                IF cur_mask[i] THEN Num(dist[i].v, 0) ELSE cur_dist[i]]
                          /\ cur_labels' = [i \in Samples |->
                                IF cur_mask[i] THEN label[i] ELSE cur_labels[i]]
                          /\ final_dist' = [i \in Samples |->
                                IF final_mask[i] THEN Num(dist[i].v, 0) ELSE final_dist[i]]
                          /\ final_labels' = [i \in Samples |->
                                IF final_mask[i] THEN label[i] ELSE final_labels[i]]
                          /\ final_advs' = [i \in Samples |->
                                IF final_mask[i] THEN assign[i] ELSE final_advs[i]]
                          /\ ii' = ii + 1
                          /\ pc' = IF ii + 1 < self.max_iterations THEN "inner" ELSE "coeffs"
    /\ UNCHANGED << self, x, y, loss_coeffs, coeff_lower_bound, coeff_upper_bound,
                    aliased, outer_step >>

(* lines 310-312: the coefficient update that ends a binary search step *)

UpdateLossCoeffs ==
    /\ pc = "coeffs"
    /\ LET new == [i \in Samples |->
                     UpdateCoeff(loss_coeffs[i], coeff_lower_bound[i], coeff_upper_bound[i],
                                 LabelSuccess(cur_labels[i], y[i]), aliased)]
       IN  /\ loss_coeffs' = [i \in Samples |-> new[i].lc]
           /\ coeff_lower_bound' = [i \in Samples |-> new[i].lb]
           /\ coeff_upper_bound' = [i \in Samples |-> new[i].ub]
    /\ outer_step' = outer_step + 1
    /\ pc' = "outer"
    /\ UNCHANGED << self, global_step, x, y, aliased, final_dist, final_labels,
                    final_advs, ii, slack, newimg, cur_dist, cur_labels, prevloss,
                    loss, scores, hit >>

(* line 314 *)

Return ==
    /\ pc = "outer"
    /\ outer_step >= self.binary_search_steps
    /\ pc' = "done"
    /\ UNCHANGED << self, global_step, x, y, loss_coeffs, coeff_lower_bound,
                    coeff_upper_bound, aliased, final_dist, final_labels, final_advs,
                    outer_step, ii, slack, newimg, cur_dist, cur_labels, prevloss,
                    loss, scores, hit >>

Next == Perturb \/ BeginOuterStep \/ InnerIteration \/ UpdateLossCoeffs \/ Return

----------------------------------------------------------------------------
(* Specifications.  All share Next; they differ in the attacks and batches  *)
(* the run starts from.                                                     *)

Batch(px, label) == [x |-> << [p \in Pixels |-> Fin(px)] >>, y |-> << label >>]

\* best-result tracking: both goals, both rules, an unknown rule, with margin and without
TrackAttacks ==
    { Attack(t, c, FALSE, r, b, sm[1], sm[2], Num(1, 0 - 3), MaxPix) :
        t \in BOOLEAN, c \in {0, 1}, r \in {"EN", "L1"}, b \in {0, 1},
        sm \in {<< MaxSteps, 1 >>, << 1, MaxIter >>} }
    \cup { Attack(FALSE, 0, a, r, 1, 1, MaxIter, Num(1, 0 - 3), MaxPix) :
             a \in BOOLEAN, r \in {"EN", "L2"} }

Init == InitWith(TrackAttacks, Batches(1))

Spec == Init /\ [][Next]_vars

\* the binary search: long enough for the repeat step, started below, at and above
\* the thresholds.  beta covers the whole slack range, so a candidate is x or NaN.
InitConsts == { Num(0, 0), Num(1, 0 - 3), Num(1, 8), Num(1, 9), Num(2, 10) }

SearchAttacks ==
    { Attack(FALSE, 0, FALSE, r, MaxPix + SlackMargin, s, 1, c, MaxPix) :
        r \in {"EN"}, s \in {1, MaxSteps, REPEAT_STEP}, c \in InitConsts }
    \cup { Attack(FALSE, 0, FALSE, "L2", 1, 1, 1, Num(1, 0 - 3), MaxPix) }

InitSearch == InitWith(SearchAttacks, {Batch(1, 0)})

SpecSearch == InitSearch /\ [][Next]_vars

\* early stopping: a test at every iteration (fewer than NUM_CHECKS iterations) and
\* at every second one (2 * NUM_CHECKS iterations)
AbortAttacks ==
    { Attack(FALSE, 0, a, r, MaxPix + SlackMargin, 1, m, Num(1, 0 - 3), MaxPix) :
        a \in BOOLEAN, r \in {"EN"}, m \in {0, MaxIter, 2 * NUM_CHECKS} }
    \cup { Attack(FALSE, 0, a, "L2", 1, 1, 1, Num(1, 0 - 3), MaxPix) : a \in BOOLEAN }

InitAbort == InitWith(AbortAttacks, {Batch(1, 0), Batch(1, 1)})

SpecAbort == InitAbort /\ [][Next]_vars

\* the proximal step: every x of the grid, also outside the box, beta of either sign
FistaAttacks ==
    { Attack(FALSE, 0, FALSE, r, b, 1, MaxIter, Num(1, 0 - 3), cm) :
        r \in {"EN"}, b \in {0 - 1, 0, 1}, cm \in {MaxPix - 1, MaxPix} }
    \cup { Attack(FALSE, 0, FALSE, "L2", 1, 1, 1, Num(1, 0 - 3), MaxPix) }

InitFista == InitWith(FistaAttacks, Batches(1))

SpecFista == InitFista /\ [][Next]_vars

----------------------------------------------------------------------------
(* Claims about the best-result tracking, under Spec *)

Started == pc # "ready"

InLoop == pc \in {"inner", "coeffs"}

\* C1: within one perturb call final_dist[i] starts at DIST_UPPER and never
\* increases, for every sample i and every step of the run.
C1_FinalDistNonIncreasing ==
    [][ /\ pc = "ready" => \A i \in Samples : final_dist'[i] = DIST_UPPER
        /\ Started => \A i \in Samples : NumLe(final_dist'[i], final_dist[i]) ]_vars

\* a later binary search step succeeded with a larger distance than the best so far,
\* and the best was kept
C1_Witness ==
    /\ InLoop /\ outer_step >= 1
    /\ \E i \in Samples :
          NumLt(final_dist[i], cur_dist[i]) /\ NumLt(cur_dist[i], DIST_UPPER)

\* C2: whenever final_labels[i] is a valid class, the classifier's scores on
\* final_advs[i], adjusted by the confidence, satisfy the success predicate
\* against y[i] for the attack's goal.
C2_SuccessConsistency ==
    Started =>
        \A i \in Samples :
            final_labels[i] # INVALID_LABEL =>
                /\ final_advs[i] \in DOMAIN scores
                /\ LET out == scores[final_advs[i]]
                       adj == [c \in Classes |->
                                 IF c # y[i] THEN out[c]
                                 ELSE IF self.targeted THEN out[c] - self.confidence
                                 ELSE out[c] + self.confidence]
                       top == CHOOSE c \in Classes :
                                 /\ \A d \in Classes : adj[d] <= adj[c]
                                 /\ \A d \in Classes : adj[d] = adj[c] => c <= d
                   IN  IF self.targeted THEN top = y[i] ELSE top # y[i]

\* a returned adversarial example that had to clear a positive margin
C2_Witness ==
    /\ pc = "done" /\ self.confidence > 0
    /\ \E i \in Samples : final_labels[i] # INVALID_LABEL /\ final_advs[i] # x[i]

\* C6: a sample none of whose evaluated candidates was a confidence-adjusted
\* success is returned as its input, with final_labels[i] = INVALID_LABEL and
\* final_dist[i] = DIST_UPPER.
C6_FallbackToInput ==
    pc = "done" =>
        \A i \in Samples :
            ~hit[i] => /\ final_advs[i] = x[i]
                       /\ final_labels[i] = INVALID_LABEL
                       /\ final_dist[i] = DIST_UPPER

\* the run returned after evaluating a candidate other than the input, without success
C6_Witness ==
    /\ pc = "done" /\ global_step >= 1
    /\ \E i \in Samples : ~hit[i] /\ newimg[i] # x[i] /\ ImgFinite(newimg[i])

\* the decision criterion of an image, spelled from the distances
C9_Criterion(img, orig) ==
    LET l1 == calc_l1dist(img, orig).v
        l2 == calc_l2distsq(img, orig).v
    IN  IF self.decision_rule = "EN" THEN Num(l2 + self.beta * l1, 0) ELSE Num(l1, 0)

\* the best image, distance and label of a sample belong together
C9_Consistent ==
    Started =>
        \A i \in Samples :
            NumLt(final_dist[i], DIST_UPPER) =>
                /\ ImgFinite(final_advs[i])
                /\ final_advs[i] \in DOMAIN scores
                /\ C9_Criterion(final_advs[i], x[i]) = final_dist[i]
                /\ ArgMax(scores[final_advs[i]]) = final_labels[i]

\* C9: whenever final_dist[i] < DIST_UPPER, final_advs[i] is the candidate whose
\* criterion (l2 + beta * l1 under EN, l1 under L1) is final_dist[i] and whose raw
\* arg-max is final_labels[i]; final_advs[i] and final_labels[i] change only in a
\* step that lowers final_dist[i].
C9_BestTriple ==
    /\ []C9_Consistent
    /\ [][ Started =>
             \A i \in Samples :
                 (final_advs'[i] # final_advs[i] \/ final_labels'[i] # final_labels[i])
                     => NumLt(final_dist'[i], final_dist[i]) ]_vars

\* the latest candidate is adversarial but farther than the best, which was kept
C9_Witness ==
    /\ InLoop /\ ii >= 2
    /\ \E i \in Samples :
          /\ NumLt(final_dist[i], DIST_UPPER)
          /\ final_advs[i] # x[i]
          /\ newimg[i] # final_advs[i]
          /\ newimg[i] \in DOMAIN scores
          /\ AdjustedSuccess(scores[newimg[i]], y[i])
          /\ NumLt(final_dist[i], C9_Criterion(newimg[i], x[i]))

----------------------------------------------------------------------------
(* Claims about the binary search, under SpecSearch *)

Updating == pc = "coeffs"

Zero == Num(0, 0)

\* C3: from one _update_loss_coeffs call to the next, the repeat step included,
\* coeff_lower_bound[i] never decreases and coeff_upper_bound[i] never increases.
C3_BoundsMonotone ==
    [][ Updating =>
          \A i \in Samples :
              /\ NumLe(coeff_lower_bound[i], coeff_lower_bound'[i])
              /\ NumLe(coeff_upper_bound'[i], coeff_upper_bound[i]) ]_vars

\* after the repeat step an upper bound lies above COEFF_UPPER, its initial value
C3_Witness ==
    /\ pc = "done" /\ aliased
    /\ \E i \in Samples : NumLt(COEFF_UPPER, coeff_upper_bound[i])

\* the outcome of the step for sample i, and the bounds after the bound update
C7_Succeeded(i) == LabelSuccess(cur_labels[i], y[i])

C7_UpperAfter(i) ==
    IF C7_Succeeded(i) THEN NumMin(coeff_upper_bound[i], loss_coeffs[i])
    ELSE coeff_upper_bound[i]

C7_LowerAfter(i) ==
    IF C7_Succeeded(i) THEN coeff_lower_bound[i]
    ELSE NumMax(coeff_lower_bound[i], loss_coeffs[i])

\* C7: after the bound update, an upper bound not below UPPER_CHECK multiplies
\* loss_coeffs[i] by 10 and one below it sets loss_coeffs[i] to the midpoint of the
\* bounds, whether the sample succeeded or failed.
C7_AsStated ==
    [][ Updating =>
          \A i \in Samples :
              IF NumLt(C7_UpperAfter(i), UPPER_CHECK)
              THEN loss_coeffs'[i] = NumMid(C7_LowerAfter(i), C7_UpperAfter(i))
              ELSE loss_coeffs'[i] = NumTimes10(loss_coeffs[i]) ]_vars

\* C7, with the successful sample told apart: with the upper bound below
\* UPPER_CHECK after the bound update,
\* loss_coeffs[i] becomes the midpoint of the bounds; otherwise a failed sample's
\* loss_coeffs[i] is multiplied by 10 and a successful sample's is left as it is.
C7_Amended ==
    [][ Updating =>
          \A i \in Samples :
              IF NumLt(C7_UpperAfter(i), UPPER_CHECK)
              THEN loss_coeffs'[i] = NumMid(C7_LowerAfter(i), C7_UpperAfter(i))
              ELSE IF C7_Succeeded(i)
              THEN loss_coeffs'[i] = loss_coeffs[i]
              ELSE loss_coeffs'[i] = NumTimes10(loss_coeffs[i]) ]_vars

\* a step succeeded with a coefficient of at least UPPER_CHECK and has been updated
C7_Witness ==
    /\ pc = "outer" /\ outer_step >= 1
    /\ \E i \in Samples :
          /\ C7_Succeeded(i)
          /\ ~NumLt(coeff_upper_bound[i], UPPER_CHECK)
          /\ NumLt(Zero, loss_coeffs[i])

\* C10: with initial_const >= 0, after every _update_loss_coeffs call a sample whose
\* upper bound is below UPPER_CHECK has
\* coeff_lower_bound[i] <= loss_coeffs[i] <= coeff_upper_bound[i].
C10_Bracketed ==
    (pc \in {"outer", "done"} /\ outer_step >= 1 /\ NumLe(Zero, self.initial_const)) =>
        \A i \in Samples :
            NumLt(coeff_upper_bound[i], UPPER_CHECK) =>
                /\ NumLe(coeff_lower_bound[i], loss_coeffs[i])
                /\ NumLe(loss_coeffs[i], coeff_upper_bound[i])

\* the repeat step has run on a bracket narrowed by failures and successes
C10_Witness ==
    /\ pc = "done" /\ aliased /\ NumLe(Zero, self.initial_const)
    /\ \E i \in Samples :
          /\ NumLt(coeff_upper_bound[i], UPPER_CHECK)
          /\ NumLt(Zero, coeff_lower_bound[i])
          /\ NumLt(coeff_lower_bound[i], coeff_upper_bound[i])

----------------------------------------------------------------------------
(* Early stopping, under SpecAbort *)

C8_Interval ==
    IF self.max_iterations \div NUM_CHECKS >= 1
    THEN self.max_iterations \div NUM_CHECKS ELSE 1

\* l > prev * 0.999999 = prev - prev / 10^6, by quotient and remainder of prev
C8_Exceeds(l, prev) ==
    /\ l.k = "fin" /\ prev.k = "fin"
    /\ LET q == prev.v \div ONE_MINUS_EPS_DEN
           r == prev.v % ONE_MINUS_EPS_DEN
           t == l.v - prev.v + q
       IN  t > 0 \/ (t = 0 /\ r > 0)

\* the schedule of one iteration that starts at ii with the checkpoint prevloss
C8_Scheduled ==
    LET check == self.abort_early /\ ii % C8_Interval = 0
    IN  IF check /\ C8_Exceeds(loss', prevloss)
        THEN /\ pc' = "coeffs" /\ ii' = ii
             /\ UNCHANGED << prevloss, cur_dist, cur_labels,
                             final_dist, final_labels, final_advs >>
        ELSE /\ ii' = ii + 1
             /\ prevloss' = IF check THEN loss' ELSE prevloss
             /\ (pc' = "coeffs") <=> (ii' = self.max_iterations)

\* C8: with abort_early the loss is tested exactly at the iterations ii with
\* ii mod max(1, max_iterations // 10) = 0, against PREV_LOSS_INIT at first; a loss
\* above prevloss * 0.999999 ends the inner loop at once, before the best-tracking
\* update, and any other loss becomes prevloss.  Without abort_early the inner loop
\* always runs exactly max_iterations iterations.
C8_EarlyStopping ==
    /\ []((pc # "inner" /\ Started /\ ~self.abort_early /\ global_step >= 1)
             => ii = self.max_iterations)
    /\ [][ /\ (pc = "outer" /\ pc' # "done") => (prevloss' = Fin(PREV_LOSS_INIT) /\ ii' = 0)
           /\ pc = "inner" => C8_Scheduled ]_vars

\* the schedule as every iteration that evaluates its loss follows it: the
\* iterations of an attack whose decision rule is EN or L1
C8_ScheduleOfEvaluatedIterations ==
    /\ [](InLoop => ii <= self.max_iterations)
    /\ []((pc = "coeffs" /\ ~self.abort_early) => ii = self.max_iterations)
    /\ [][ /\ (pc = "outer" /\ pc' # "done") => (prevloss' = Fin(PREV_LOSS_INIT) /\ ii' = 0)
           /\ (pc = "inner" /\ pc' # "raised") => C8_Scheduled ]_vars

\* the loop was left at the second test (ii = 2 of 20): the first test recorded a
\* loss, the iteration between was not tested, the second loss did not improve on it
C8_LeftAtSecondTest ==
    /\ pc = "coeffs" /\ self.abort_early
    /\ self.max_iterations = 2 * NUM_CHECKS
    /\ ii = 2
    /\ prevloss # Fin(PREV_LOSS_INIT)

\* an inner loop without early stopping was left in its first iteration
C8_Witness ==
    /\ pc = "raised" /\ ~self.abort_early
    /\ ii = 0 /\ self.max_iterations >= 1

----------------------------------------------------------------------------
(* The box constraint, under SpecFista *)

InBox(a) == IsFin(a) /\ self.clip_min <= a.v /\ a.v <= self.clip_max

C4_Premise ==
    /\ self.beta >= 0
    /\ \A i \in Samples, p \in Pixels : InBox(x[i][p])

\* C4: with x in the box and beta >= 0, every element of every candidate image,
\* whatever value the slack element has after the gradient step, and every element
\* of final_advs lies in [clip_min, clip_max].  The slack values ranged over leave
\* NaN out: the values left are the finite ones and the two infinities.
C4_BoxForAnySlack ==
    (InLoop /\ global_step >= 1 /\ C4_Premise) =>
        \A i \in Samples, p \in Pixels :
            /\ \A sp \in SlackValues \ {NaN} : InBox(AssignNewimg(x[i][p], sp))
            /\ InBox(final_advs[i][p])

\* what the proximal step does keep: an element computed from a finite slack element
\* lies in the box, an infinite or NaN slack element gives a NaN element, and every
\* element of final_advs lies in the box
C4_BoxForFiniteSlack ==
    C4_Premise =>
        /\ \A i \in Samples, p \in Pixels, sp \in SlackValues :
              IF IsFin(sp) THEN InBox(AssignNewimg(x[i][p], sp))
              ELSE AssignNewimg(x[i][p], sp) = NaN
        /\ InLoop =>
              \A i \in Samples, p \in Pixels :
                  /\ InBox(newimg[i][p]) \/ (newimg[i][p] = NaN /\ slack[i][p].k = "nan")
                  /\ InBox(final_advs[i][p])

\* a candidate of an input inside the box, with beta >= 0, is NaN
C4_Witness ==
    /\ InLoop /\ C4_Premise
    /\ \E i \in Samples, p \in Pixels : newimg[i][p] = NaN

----------------------------------------------------------------------------
(* An unknown decision rule, under Spec *)

\* C5: with decision_rule other than EN and L1 the attack fails before the search
\* loop starts: no gradient step, no global_step increment and no classifier
\* evaluation happens, and the call does not return.
C5_FailsFast ==
    self.decision_rule \notin {"EN", "L1"} =>
        /\ global_step = 0
        /\ scores = Unset
        /\ pc # "done"

\* the error was raised inside the first inner iteration, after the gradient step
\* and the evaluation of the classifier on the candidate
C5_Witness ==
    /\ pc = "raised" /\ self.decision_rule \notin {"EN", "L1"}
    /\ global_step = 1 /\ scores # Unset

====
